---- MODULE Spec2Model ----
(***************************************************************************)
(* Model of alpaca_trade_api/stream.py: the two streaming sessions         *)
(* (DataStream, TradingStream), their subscription registries, their       *)
(* _run_forever supervisors and the Stream facade that runs both.          *)
(*                                                                         *)
(* A supervisor is a coroutine: its position (pc) is the await it is       *)
(* suspended at, and one action is the code it runs from one await to the  *)
(* next.  The subscribe/unsubscribe methods are synchronous calls and each *)
(* is one action.                                                          *)
(***************************************************************************)
EXTENDS Integers, Sequences, FiniteSets, TLC

Sessions == {"data", "trading"}

\* the three registries of a DataStream, named by their key in the wire message
Kinds == {"trades", "quotes", "bars"}

Symbols == {"AAPL", "*"}

\* coroutine functions a caller may register
Handlers == {"h1", "h2"}

None == "None"

\* int(os.environ.get('APCA_RETRY_MAX', 3))
APCA_RETRY_MAX == 3

\* int(os.environ.get('APCA_RETRY_WAIT', 3))
APCA_RETRY_WAIT == 3

\* a handler argument that is not a coroutine function
NotCoroutine == "sync_fn"

\* most symbols one subscribe or unsubscribe call names
MaxSymbols == 2

\* most subscribe and unsubscribe calls of one run
MaxCalls == 2

\* most messages of one frame of the data feed
MaxBatch == 2

\* the 'T' of a message of the data feed that has handlers: trade, quote, bar
MsgTypes == {"t", "q", "b"}

\* the messages of the data feed: a trade, a quote and a bar of "AAPL", and
\* a trade of "MSFT", a symbol no call subscribes
Msgs == [T : MsgTypes, S : {"AAPL"}] \cup {[T |-> "t", S |-> "MSFT"]}

\* msgpack.unpackb(r): the messages of one frame
Frames == UNION {[1..n -> Msgs] : n \in 1..MaxBatch}

VARIABLES
    loop,       \* the event loop of Stream.run: "init", "running", "stopped"
    runResult,  \* how Stream.run ended: "none", "interrupted", "raised"
    sess,       \* per session: the object's fields and its supervisor's position
    handlers,   \* DataStream: _trade_handlers, _quote_handlers, _bar_handlers
    trade_updates_handler,  \* TradingStream._trade_updates_handler
    sent,       \* per session: the messages sent on the socket of the current attempt
    streak,     \* per session: transport failures since the session was last Live
    slept,      \* per session: time units slept in backoff in the current streak
    reconnects, \* per session: connection attempts started after a failure of the streak
    cancelAt,   \* per session: the await at which the cancellation was delivered
    firstAt,    \* per session: what the first connection attempt found subscribed
    lastAt,     \* per session: what the latest connection attempt found subscribed
    ncalls,     \* subscribe and unsubscribe calls made so far
    lastCall,   \* the most recent subscribe or unsubscribe call and its outcome
    net,        \* per kind: key -> handler, as the accepted calls so far leave it
    allValid,   \* whether every call so far was valid (none was rejected)
    removed,    \* per kind: the keys a completed unsubscribe removed, until subscribed again
    liveAfter,  \* per session, while Live: the failures its connection attempt followed
    feed        \* DataStream._consume: the frame received last and its dispatch so far

vars == <<loop, runResult, sess, handlers, trade_updates_handler, sent, streak,
          slept, reconnects, cancelAt, firstAt, lastAt, ncalls, lastCall, net, allValid,
          removed, liveAfter, feed>>

regs == <<handlers, trade_updates_handler>>

calls == <<ncalls, lastCall, net, allValid>>

facade == <<loop, runResult>>

\* The awaits of _run_forever, where a supervisor can be suspended.
\*   wait     asyncio.sleep(0.1) of the entry poll
\*   connect  websockets.connect(...)
\*   ack      recv() of the connect acknowledgment (DataStream only)
\*   auth     send() of the auth request and recv() of its response
\*   sub      send() of the subscribe message of _start_ws
\*   consume  recv() of _consume
\*   backoff  asyncio.sleep(APCA_RETRY_WAIT) of the except clause
\*   closing  ws.close() of close(), called from the finally clause
\*   handler  handler(...) of _dispatch, called from _consume
TryAwaits == {"connect", "ack", "auth", "sub", "consume"}

Awaits == TryAwaits \cup {"wait", "backoff", "closing", "handler"}

\* __init__ of DataStream and TradingStream; retries is the local of _run_forever
NewSession ==
    [ws |-> None, running |-> FALSE, retries |-> 0,
     pc |-> "idle", after |-> "none", outcome |-> "none"]

\* The top of the `while True` loop: the flag is cleared and _start_ws calls
\* _connect, which awaits websockets.connect.
LoopTop(o) == [o EXCEPT !.running = FALSE, !.pc = "connect", !.after = "none"]

\* What follows the finally clause: the next iteration, or the end of the
\* coroutine with `next` as its result ("returned" or the exception raised).
AfterFinally(o, next) ==
    IF next = "loop" THEN LoopTop(o)
    ELSE [o EXCEPT !.pc = "done", !.after = "none", !.outcome = next]

\* finally: await self.close().  close() awaits ws.close() only when the handle
\* is set; with an empty handle it returns without suspending.
Finally(o, next) ==
    IF o.ws # None
    THEN [o EXCEPT !.pc = "closing", !.ws = "closing", !.after = next]
    ELSE AfterFinally(o, next)

\* CloseDone that leaves the handle set
CloseDone_keeps_handle(o) == AfterFinally(o, o.after)

\* close(): ws.close() has returned, the handle is cleared.
CloseDone(o) == AfterFinally([o EXCEPT !.ws = None], o.after)

\* ExceptWSE with the ceiling compared by >=: the third failure aborts
ExceptWSE_ceiling_early(o) ==
    LET r == o.retries + 1
        p == [o EXCEPT !.retries = r,
                       !.ws = IF o.ws = None THEN None ELSE "failed"]
    IN  IF r >= APCA_RETRY_MAX THEN Finally(p, "ConnectionError")
        ELSE IF r > 1 THEN [p EXCEPT !.pc = "backoff"]
        ELSE Finally(p, "loop")

\* ExceptWSE that sleeps after the first failure too
ExceptWSE_sleeps_first(o) ==
    LET r == o.retries + 1
        p == [o EXCEPT !.retries = r,
                       !.ws = IF o.ws = None THEN None ELSE "failed"]
    IN  IF r > APCA_RETRY_MAX THEN Finally(p, "ConnectionError")
        ELSE IF r > 0 THEN [p EXCEPT !.pc = "backoff"]
        ELSE Finally(p, "loop")

\* except websockets.WebSocketException: count, abort above the maximum, sleep
\* from the second failure on, otherwise fall through to the finally clause.
ExceptWSE(o) ==
    LET r == o.retries + 1
        p == [o EXCEPT !.retries = r,
                       !.ws = IF o.ws = None THEN None ELSE "failed"]
    IN  IF r > APCA_RETRY_MAX THEN Finally(p, "ConnectionError")
        ELSE IF r > 1 THEN [p EXCEPT !.pc = "backoff"]
        ELSE Finally(p, "loop")

\* BecomeLive without `retries = 0`
BecomeLive_keeps_retries(o) == [o EXCEPT !.running = TRUE, !.pc = "consume"]

\* self._running = True; retries = 0; then _consume awaits recv().
BecomeLive(o) == [o EXCEPT !.running = TRUE, !.retries = 0, !.pc = "consume"]

(***************************************************************************)
(* The registries.  A dict is the sequence of its <<key, handler>> items   *)
(* in insertion order.                                                     *)
(***************************************************************************)
Keys(d) == [i \in 1..Len(d) |-> d[i][1]]

KeySet(d) == {d[i][1] : i \in 1..Len(d)}

\* SetItem that keeps the entry of a key that is already there
SetItem_keeps_first(d, k, h) ==
    IF k \in KeySet(d) THEN d ELSE Append(d, <<k, h>>)

\* d[k] = h
SetItem(d, k, h) ==
    IF k \in KeySet(d)
    THEN [i \in 1..Len(d) |-> IF d[i][1] = k THEN <<k, h>> ELSE d[i]]
    ELSE Append(d, <<k, h>>)

\* DelItem that deletes nothing
DelItem_keeps(d, k) == d

\* del d[k], for a key of d
DelItem(d, k) == SelectSeq(d, LAMBDA e : e[1] # k)

\* for symbol in symbols: handlers[symbol] = handler
RECURSIVE StoreAll(_, _, _)
StoreAll(d, symbols, h) ==
    IF symbols = <<>> THEN d
    ELSE StoreAll(SetItem(d, Head(symbols), h), Tail(symbols), h)

\* for symbol in symbols: del handlers[symbol].  The loop stops at the first
\* symbol that is no key (KeyError), with the earlier ones already deleted.
RECURSIVE DelAll(_, _)
DelAll(d, symbols) ==
    IF symbols = <<>> THEN [d |-> d, result |-> "ok"]
    ELSE IF Head(symbols) \notin KeySet(d) THEN [d |-> d, result |-> "KeyError"]
    ELSE DelAll(DelItem(d, Head(symbols)), Tail(symbols))

\* if self._trade_handlers or self._quote_handlers or self._bar_handlers
AnyHandlers(hs) == \E k \in Kinds : Len(hs[k]) > 0

\* DataStream._subscribe_all: the messages it sends (one, or none)
subscribe_all(hs) ==
    IF AnyHandlers(hs)
    THEN << [action |-> "subscribe", trades |-> Keys(hs["trades"]),
             quotes |-> Keys(hs["quotes"]), bars |-> Keys(hs["bars"])] >>
    ELSE << >>

\* TradingStream._subscribe_trade_updates: the messages it sends (one, or none)
subscribe_trade_updates_msgs(h) ==
    IF h # None
    THEN << [action |-> "listen", streams |-> <<"trade_updates">>] >>
    ELSE << >>

\* DataStream._unsubscribe, called with one of trades=, quotes=, bars=
unsubscribe_msgs(kind, symbols) ==
    IF symbols # <<>>
    THEN << [action |-> "unsubscribe",
             trades |-> IF kind = "trades" THEN symbols ELSE <<>>,
             quotes |-> IF kind = "quotes" THEN symbols ELSE <<>>,
             bars |-> IF kind = "bars" THEN symbols ELSE <<>>] >>
    ELSE << >>

\* the auth request of _auth
auth_msg(s) ==
    IF s = "data" THEN [action |-> "auth"] ELSE [action |-> "authenticate"]

\* what _start_ws sends after _auth
resubscribe_msgs(s) ==
    IF s = "data" THEN subscribe_all(handlers)
    ELSE subscribe_trade_updates_msgs(trade_updates_handler)

\* HasSubscription with no entry poll: the supervisor connects at once
HasSubscription_no_wait(s) == TRUE

\* the condition of the entry poll of _run_forever
HasSubscription(s) ==
    IF s = "data" THEN AnyHandlers(handlers) ELSE trade_updates_handler # None

\* self._ws.send(...) from a subscribe or unsubscribe call: on an empty handle
\* the attribute lookup fails, on a failed or closing socket send() raises
send_result(o) ==
    IF o.ws = None THEN "AttributeError"
    ELSE IF o.ws = "open" THEN "ok" ELSE "WebSocketException"

\* ensure_coroutine that lets every handler pass
ensure_coroutine_any(handler) == TRUE

\* _ensure_coroutine: whether the handler passes
ensure_coroutine(handler) == handler \in Handlers

Range(q) == {q[i] : i \in 1..Len(q)}

\* some registry of the session holds an entry
Subscribed(s) ==
    IF s = "data" THEN \E k \in Kinds : handlers[k] # <<>>
    ELSE trade_updates_handler \in Handlers

\* the session is Live: the flag is set and the handle is an open socket
Live(s) == sess[s].running /\ sess[s].ws = "open"

(***************************************************************************)
(* The supervisors: DataStream._run_forever and TradingStream._run_forever *)
(***************************************************************************)
\* no frame received on the current socket
NoFrame == [got |-> <<>>, invoked |-> <<>>, active |-> 0]

\* One step of the supervisor of s, to the fields n.  wse tells whether the
\* step is a transport failure, nap the time units of sleep it completes.
\* The observers (streak, slept, reconnects, firstAt, lastAt, liveAfter)
\* follow; a step made in _consume leaves it, and the frame in dispatch there
\* is dropped with the handler invocation it was suspended in.
Supervise(s, n, wse, nap) ==
    LET o == sess[s]
        live == n.pc = "consume" /\ o.pc # "consume"
        started == n.pc = "connect" /\ (o.pc # "connect" \/ wse)
        failures == IF live THEN 0 ELSE streak[s] + (IF wse THEN 1 ELSE 0)
        found == IF Subscribed(s) THEN "subscribed" ELSE "empty"
    IN  /\ loop = "running"
        /\ sess' = [sess EXCEPT ![s] = n]
        /\ streak' = [streak EXCEPT ![s] = failures]
        /\ slept' = [slept EXCEPT ![s] = IF live THEN 0 ELSE @ + nap]
        /\ reconnects' = [reconnects EXCEPT ![s] =
                IF live THEN 0
                ELSE IF started /\ failures > 0 THEN @ + 1 ELSE @]
        /\ firstAt' = [firstAt EXCEPT ![s] =
                IF started /\ @ = "none" THEN found ELSE @]
        /\ lastAt' = [lastAt EXCEPT ![s] = IF started THEN found ELSE @]
        /\ liveAfter' = [liveAfter EXCEPT ![s] =
                IF live THEN streak[s]
                ELSE IF n.running /\ n.ws = "open" THEN @ ELSE 0]
        /\ feed' = NoFrame
        /\ UNCHANGED <<facade, regs, calls, removed>>

\* while not (handlers): await asyncio.sleep(0.1) -- a poll that finds a
\* subscription leaves the loop and starts the first attempt
poll(s) ==
    /\ sess[s].pc = "wait"
    /\ HasSubscription(s)
    /\ Supervise(s, LoopTop([sess[s] EXCEPT !.retries = 0]), FALSE, 0)
    /\ UNCHANGED <<sent, cancelAt>>

\* connect_ok that sends the subscribe message as soon as the socket is there
connect_ok_subscribes_first(s) ==
    /\ sess[s].pc = "connect"
    /\ Supervise(s, [sess[s] EXCEPT !.ws = "open",
                                    !.pc = IF s = "data" THEN "ack" ELSE "auth"],
                 FALSE, 0)
    /\ sent' = [sent EXCEPT ![s] =
                    resubscribe_msgs(s) \o (IF s = "data" THEN <<>> ELSE <<auth_msg(s)>>)]
    /\ UNCHANGED cancelAt

\* _connect: websockets.connect returned a socket.  DataStream goes on to
\* recv() the acknowledgment, TradingStream to _auth, which sends its request.
connect_ok(s) ==
    /\ sess[s].pc = "connect"
    /\ Supervise(s, [sess[s] EXCEPT !.ws = "open",
                                    !.pc = IF s = "data" THEN "ack" ELSE "auth"],
                 FALSE, 0)
    /\ sent' = [sent EXCEPT ![s] = IF s = "data" THEN <<>> ELSE <<auth_msg(s)>>]
    /\ UNCHANGED cancelAt

\* DataStream._connect: the acknowledgment is [{T: success, msg: connected}];
\* _auth sends its request
ack_ok(s) ==
    /\ s = "data"
    /\ sess[s].pc = "ack"
    /\ Supervise(s, [sess[s] EXCEPT !.pc = "auth"], FALSE, 0)
    /\ sent' = [sent EXCEPT ![s] = Append(@, auth_msg(s))]
    /\ UNCHANGED cancelAt

\* DataStream._connect: any other acknowledgment raises ValueError, which no
\* except clause of _run_forever names
ack_bad(s) ==
    /\ s = "data"
    /\ sess[s].pc = "ack"
    /\ Supervise(s, Finally(sess[s], "ValueError"), FALSE, 0)
    /\ UNCHANGED <<sent, cancelAt>>

\* _auth: the response is the expected one; _start_ws calls _subscribe_all
\* (_subscribe_trade_updates), and with nothing to send the session is Live
auth_ok(s) ==
    /\ sess[s].pc = "auth"
    /\ LET msgs == resubscribe_msgs(s)
       IN  /\ Supervise(s, IF msgs = <<>> THEN BecomeLive(sess[s])
                            ELSE [sess[s] EXCEPT !.pc = "sub"], FALSE, 0)
           /\ sent' = [sent EXCEPT ![s] = @ \o msgs]
    /\ UNCHANGED cancelAt

\* auth_bad with the auth failure raised as a WebSocketException
auth_bad_retried(s) ==
    /\ sess[s].pc = "auth"
    /\ Supervise(s, ExceptWSE(sess[s]), FALSE, 0)
    /\ UNCHANGED <<sent, cancelAt>>

\* _auth: an error frame or an unexpected response raises ValueError
auth_bad(s) ==
    /\ sess[s].pc = "auth"
    /\ Supervise(s, Finally(sess[s], "ValueError"), FALSE, 0)
    /\ UNCHANGED <<sent, cancelAt>>

\* _start_ws returned: the subscribe message is sent
sub_done(s) ==
    /\ sess[s].pc = "sub"
    /\ Supervise(s, BecomeLive(sess[s]), FALSE, 0)
    /\ UNCHANGED <<sent, cancelAt>>

\* websockets.connect, a send() or a recv() of the try block raises a
\* WebSocketException
transport_fail(s) ==
    /\ sess[s].pc \in TryAwaits
    /\ Supervise(s, ExceptWSE(sess[s]), TRUE, 0)
    /\ UNCHANGED <<sent, cancelAt>>

\* the sleep of the except clause is over; the finally clause follows
backoff_done(s) ==
    /\ sess[s].pc = "backoff"
    /\ Supervise(s, Finally(sess[s], "loop"), FALSE, APCA_RETRY_WAIT)
    /\ UNCHANGED <<sent, cancelAt>>

\* ws.close() of close() returned
close_done(s) ==
    /\ sess[s].pc = "closing"
    /\ Supervise(s, CloseDone(sess[s]), FALSE, 0)
    /\ UNCHANGED <<sent, cancelAt>>

\* Cancelled with TradingStream's except clause falling through to the next
\* iteration instead of returning
Cancelled_no_return(s, o) ==
    IF o.pc \in TryAwaits \cup {"handler"}
    THEN Finally(o, IF s = "trading" THEN "loop" ELSE "CancelledError")
    ELSE IF o.pc = "backoff" THEN Finally(o, "CancelledError")
    ELSE [o EXCEPT !.pc = "done", !.after = "none", !.outcome = "CancelledError"]

\* A CancelledError thrown into the coroutine at the await it is suspended
\* at.  In the try block TradingStream catches it and returns, DataStream has
\* no clause for it; both run the finally clause.  In the sleep of the except
\* clause no clause catches it; in the entry poll and in close() there is no
\* enclosing handler, and close() does not reach `self._ws = None`.
Cancelled(s, o) ==
    IF o.pc \in TryAwaits \cup {"handler"}
    THEN Finally(o, IF s = "trading" THEN "returned" ELSE "CancelledError")
    ELSE IF o.pc = "backoff" THEN Finally(o, "CancelledError")
    ELSE [o EXCEPT !.pc = "done", !.after = "none", !.outcome = "CancelledError"]

cancel(s) ==
    /\ sess[s].pc \in Awaits
    /\ cancelAt[s] = "none"
    /\ Supervise(s, Cancelled(s, sess[s]), FALSE, 0)
    /\ cancelAt' = [cancelAt EXCEPT ![s] = sess[s].pc]
    /\ UNCHANGED sent

(***************************************************************************)
(* DataStream._consume and DataStream._dispatch                            *)
(***************************************************************************)
\* d.get(k, default)
Get(d, k, default) ==
    IF k \in KeySet(d) THEN (CHOOSE e \in Range(d) : e[1] = k)[2] ELSE default

\* the registry _dispatch looks a message type up in
KindOf(T) == IF T = "t" THEN "trades" ELSE IF T = "q" THEN "quotes" ELSE "bars"

\* dispatch with the wildcard handler taking precedence
dispatch_wildcard_first(hs, msg) ==
    IF msg.T \in MsgTypes
    THEN Get(hs[KindOf(msg.T)], "*", Get(hs[KindOf(msg.T)], msg.S, None))
    ELSE None

\* _dispatch: the handler it awaits for the message, None when it awaits none:
\* handlers.get(symbol, handlers.get('*', None)) for a trade, quote or bar
dispatch(hs, msg) ==
    IF msg.T \in MsgTypes
    THEN Get(hs[KindOf(msg.T)], msg.S, Get(hs[KindOf(msg.T)], "*", None))
    ELSE None

\* the handler registered under the key x of kind k, None when there is none
HandlerAt(k, x) ==
    IF \E i \in 1..Len(handlers[k]) : handlers[k][i][1] = x
    THEN handlers[k][CHOOSE i \in 1..Len(handlers[k]) : handlers[k][i][1] = x][2]
    ELSE None

\* One dispatch as _consume makes it, with what the registries held then:
\* the handler awaited, the handlers under the exact key and under '*', and
\* whether the message's symbol is a key removed by a completed unsubscribe.
Dispatched(msg) ==
    [msg |-> msg, handler |-> dispatch(handlers, msg),
     exact |-> IF msg.T \in MsgTypes THEN HandlerAt(KindOf(msg.T), msg.S) ELSE None,
     wild |-> IF msg.T \in MsgTypes THEN HandlerAt(KindOf(msg.T), "*") ELSE None,
     gone |-> msg.T \in MsgTypes /\ msg.S \in removed[KindOf(msg.T)]]

\* DispatchFrom with the handler started and not awaited: the loop goes on to
\* the next message at once
RECURSIVE DispatchFrom_no_await(_, _)
DispatchFrom_no_await(got, inv) ==
    IF Len(inv) = Len(got) THEN inv
    ELSE DispatchFrom_no_await(got, Append(inv, Dispatched(got[Len(inv) + 1])))

\* for msg in msgs: await self._dispatch(msg) -- from the message after the
\* Len(inv) dispatched so far, up to the first one whose handler is awaited
\* (the coroutine suspends there) or to the end of the frame
RECURSIVE DispatchFrom(_, _)
DispatchFrom(got, inv) ==
    IF Len(inv) = Len(got) THEN inv
    ELSE LET r == Dispatched(got[Len(inv) + 1])
         IN  IF r.handler # None THEN Append(inv, r)
             ELSE DispatchFrom(got, Append(inv, r))

\* the handler invocations started by the dispatches after the first n
Invocations(inv, n) == Cardinality({i \in n + 1..Len(inv) : inv[i].handler # None})

\* the supervisor goes on in _consume with the dispatches inv made and
\* `before` handler invocations unfinished: it is suspended in the handler
\* it awaits, or back at recv() when the frame is done
Consume(got, inv, n, before) ==
    LET started == Invocations(inv, n)
    IN  /\ loop = "running"
        /\ sess' = [sess EXCEPT !["data"].pc =
                IF started > 0 /\ inv[Len(inv)].handler # None
                THEN "handler" ELSE "consume"]
        /\ feed' = [got |-> got, invoked |-> inv, active |-> before + started]
        /\ UNCHANGED <<facade, regs, calls, removed, sent, streak, slept,
                       reconnects, cancelAt, firstAt, lastAt, liveAfter>>

\* _consume: recv() returned a frame; its messages are dispatched in turn
recv(frame) ==
    /\ sess["data"].pc = "consume"
    /\ Consume(frame, DispatchFrom(frame, <<>>), 0, feed.active)

\* the handler awaited by _dispatch returned; the for loop goes on
handler_returns ==
    /\ sess["data"].pc = "handler"
    /\ Consume(feed.got, DispatchFrom(feed.got, feed.invoked),
               Len(feed.invoked), feed.active - 1)

\* the handler awaited by _dispatch raised: no except clause of _run_forever
\* names its exception, the finally clause runs and the coroutine ends
handler_raises ==
    /\ sess["data"].pc = "handler"
    /\ Supervise("data", Finally(sess["data"], "HandlerError"), FALSE, 0)
    /\ UNCHANGED <<sent, cancelAt>>

(***************************************************************************)
(* The facade: Stream.run, and DataStream.run for a session run alone      *)
(***************************************************************************)
\* the first step of _run_forever: with a subscription registered the entry
\* loop is skipped
Started(s) ==
    IF HasSubscription(s) THEN LoopTop(sess[s]) ELSE [sess[s] EXCEPT !.pc = "wait"]

Found(s) ==
    IF Started(s).pc # "connect" THEN "none"
    ELSE IF Subscribed(s) THEN "subscribed" ELSE "empty"

\* Stream.run: run_until_complete(gather(trading._run_forever(),
\* data._run_forever()))
run ==
    /\ loop = "init"
    /\ loop' = "running"
    /\ sess' = [s \in Sessions |-> Started(s)]
    /\ firstAt' = [s \in Sessions |-> Found(s)]
    /\ lastAt' = [s \in Sessions |-> Found(s)]
    /\ UNCHANGED <<runResult, regs, calls, sent, streak, slept, reconnects,
                   cancelAt, removed, liveAfter, feed>>

\* DataStream.run and TradingStream.run: run_until_complete(self._run_forever())
\* of the one session; the other session is never started
run_one(s) ==
    /\ loop = "init"
    /\ loop' = "running"
    /\ sess' = [sess EXCEPT ![s] = Started(s)]
    /\ firstAt' = [firstAt EXCEPT ![s] = Found(s)]
    /\ lastAt' = [lastAt EXCEPT ![s] = Found(s)]
    /\ UNCHANGED <<runResult, regs, calls, sent, streak, slept, reconnects,
                   cancelAt, removed, liveAfter, feed>>

\* except KeyboardInterrupt: the loop stops where it is and run returns; no
\* task is cancelled and no close() is called
interrupt ==
    /\ loop = "running"
    /\ loop' = "stopped"
    /\ runResult' = "interrupted"
    /\ UNCHANGED <<sess, regs, calls, sent, streak, slept, reconnects,
                   cancelAt, firstAt, lastAt, removed, liveAfter, feed>>

\* gather: the first exception of a supervisor ends run_until_complete, which
\* raises it; the other supervisor is left where it is
run_raises ==
    /\ loop = "running"
    /\ \E s \in Sessions :
          sess[s].pc = "done" /\ sess[s].outcome # "returned"
    /\ loop' = "stopped"
    /\ runResult' = "raised"
    /\ UNCHANGED <<sess, regs, calls, sent, streak, slept, reconnects,
                   cancelAt, firstAt, lastAt, removed, liveAfter, feed>>

(***************************************************************************)
(* The subscribe and unsubscribe calls                                     *)
(***************************************************************************)
SymbolTuples == UNION {[1..n -> Symbols] : n \in 0..MaxSymbols}

\* The net effect of the accepted calls, kept as a map: a subscribe puts its
\* handler under each of its symbols, an unsubscribe drops its symbols.
EmptyMap == [x \in {} |-> None]

Put(m, keys, h) ==
    [x \in DOMAIN m \cup keys |-> IF x \in keys THEN h ELSE m[x]]

Drop(m, keys) == [x \in DOMAIN m \ keys |-> m[x]]

\* The calls of a run are those made before run() and while it runs.
\* The observers of a call: what was called, whether the session was Live,
\* whether the call named a key that was not subscribed, how it ended and how
\* many messages it sent.
Called(op, s, unknown, result, nmsgs) ==
    /\ loop # "stopped"
    /\ ncalls' = ncalls + 1
    /\ lastCall' = [op |-> op, live |-> Live(s), unknown |-> unknown,
                    result |-> result, nmsgs |-> nmsgs]
    /\ allValid' = (allValid /\ result = "ok")

\* subscribe that sends the registries as they were before it stored
subscribe_sends_stale(kind, handler, symbols) ==
    LET o == sess["data"]
        ok == ensure_coroutine(handler)
        hs == IF ok THEN [handlers EXCEPT ![kind] = StoreAll(@, symbols, handler)]
              ELSE handlers
        msgs == IF ok /\ o.running THEN subscribe_all(handlers) ELSE <<>>
        res == IF ~ok THEN "ValueError"
               ELSE IF msgs = <<>> THEN "ok" ELSE send_result(o)
        out == IF res = "ok" THEN msgs ELSE <<>>
    IN  /\ ncalls < MaxCalls
        /\ handlers' = hs
        /\ sent' = [sent EXCEPT !["data"] = @ \o out]
        /\ Called("subscribe", "data", FALSE, res, Len(out))
        /\ net' = IF ok THEN [net EXCEPT ![kind] = Put(@, Range(symbols), handler)]
                  ELSE net
        /\ removed' = IF ok THEN [removed EXCEPT ![kind] = @ \ Range(symbols)]
                      ELSE removed
        /\ UNCHANGED <<facade, sess, trade_updates_handler, streak, slept,
                       reconnects, cancelAt, firstAt, lastAt, liveAfter, feed>>

\* DataStream._subscribe, as called by subscribe_trades, subscribe_quotes and
\* subscribe_bars (and by the facade's methods and decorators of these names)
subscribe(kind, handler, symbols) ==
    LET o == sess["data"]
        ok == ensure_coroutine(handler)
        hs == IF ok THEN [handlers EXCEPT ![kind] = StoreAll(@, symbols, handler)]
              ELSE handlers
        msgs == IF ok /\ o.running THEN subscribe_all(hs) ELSE <<>>
        res == IF ~ok THEN "ValueError"
               ELSE IF msgs = <<>> THEN "ok" ELSE send_result(o)
        out == IF res = "ok" THEN msgs ELSE <<>>
    IN  /\ ncalls < MaxCalls
        /\ handlers' = hs
        /\ sent' = [sent EXCEPT !["data"] = @ \o out]
        /\ Called("subscribe", "data", FALSE, res, Len(out))
        /\ net' = IF ok THEN [net EXCEPT ![kind] = Put(@, Range(symbols), handler)]
                  ELSE net
        /\ removed' = IF ok THEN [removed EXCEPT ![kind] = @ \ Range(symbols)]
                      ELSE removed
        /\ UNCHANGED <<facade, sess, trade_updates_handler, streak, slept,
                       reconnects, cancelAt, firstAt, lastAt, liveAfter, feed>>

\* DataStream.unsubscribe_trades, unsubscribe_quotes and unsubscribe_bars
unsubscribe(kind, symbols) ==
    LET o == sess["data"]
        msgs == IF o.running THEN unsubscribe_msgs(kind, symbols) ELSE <<>>
        sres == IF msgs = <<>> THEN "ok" ELSE send_result(o)
        del == DelAll(handlers[kind], symbols)
        res == IF sres # "ok" THEN sres ELSE del.result
        out == IF sres = "ok" THEN msgs ELSE <<>>
    IN  /\ ncalls < MaxCalls
        /\ handlers' = IF sres = "ok" THEN [handlers EXCEPT ![kind] = del.d]
                       ELSE handlers
        /\ sent' = [sent EXCEPT !["data"] = @ \o out]
        /\ Called("unsubscribe", "data",
                  ~(Range(symbols) \subseteq KeySet(handlers[kind])), res, Len(out))
        /\ net' = IF res = "ok" THEN [net EXCEPT ![kind] = Drop(@, Range(symbols))]
                  ELSE net
        /\ removed' = IF res = "ok" THEN [removed EXCEPT ![kind] = @ \cup Range(symbols)]
                      ELSE removed
        /\ UNCHANGED <<facade, sess, trade_updates_handler, streak, slept,
                       reconnects, cancelAt, firstAt, lastAt, liveAfter, feed>>

\* TradingStream.subscribe_trade_updates
subscribe_trade_updates(handler) ==
    LET o == sess["trading"]
        ok == ensure_coroutine(handler)
        h == IF ok THEN handler ELSE trade_updates_handler
        msgs == IF ok /\ o.running THEN subscribe_trade_updates_msgs(h) ELSE <<>>
        res == IF ~ok THEN "ValueError"
               ELSE IF msgs = <<>> THEN "ok" ELSE send_result(o)
        out == IF res = "ok" THEN msgs ELSE <<>>
    IN  /\ ncalls < MaxCalls
        /\ trade_updates_handler' = h
        /\ sent' = [sent EXCEPT !["trading"] = @ \o out]
        /\ Called("subscribe_trade_updates", "trading", FALSE, res, Len(out))
        /\ UNCHANGED <<facade, sess, handlers, net, streak, slept, reconnects,
                       cancelAt, firstAt, lastAt, removed, liveAfter, feed>>

(***************************************************************************)
(* The specification                                                       *)
(***************************************************************************)
NoCall ==
    [op |-> "none", live |-> FALSE, unknown |-> FALSE, result |-> "ok", nmsgs |-> 0]

Init ==
    /\ loop = "init"
    /\ runResult = "none"
    /\ sess = [s \in Sessions |-> NewSession]
    /\ handlers = [k \in Kinds |-> <<>>]
    /\ trade_updates_handler = None
    /\ sent = [s \in Sessions |-> <<>>]
    /\ streak = [s \in Sessions |-> 0]
    /\ slept = [s \in Sessions |-> 0]
    /\ reconnects = [s \in Sessions |-> 0]
    /\ cancelAt = [s \in Sessions |-> "none"]
    /\ firstAt = [s \in Sessions |-> "none"]
    /\ lastAt = [s \in Sessions |-> "none"]
    /\ ncalls = 0
    /\ lastCall = NoCall
    /\ net = [k \in Kinds |-> EmptyMap]
    /\ allValid = TRUE
    /\ removed = [k \in Kinds |-> {}]
    /\ liveAfter = [s \in Sessions |-> 0]
    /\ feed = NoFrame

Next ==
    \/ run
    \/ interrupt
    \/ run_raises
    \/ \E s \in Sessions : poll(s)
    \/ \E s \in Sessions : connect_ok(s)
    \/ \E s \in Sessions : ack_ok(s)
    \/ \E s \in Sessions : ack_bad(s)
    \/ \E s \in Sessions : auth_ok(s)
    \/ \E s \in Sessions : auth_bad(s)
    \/ \E s \in Sessions : sub_done(s)
    \/ \E s \in Sessions : transport_fail(s)
    \/ \E s \in Sessions : backoff_done(s)
    \/ \E s \in Sessions : close_done(s)
    \/ \E s \in Sessions : cancel(s)
    \/ subscribe("trades", "h1", <<"AAPL">>)
    \/ subscribe_trade_updates("h1")

\* Stream.run: both sessions under the facade, every step of both supervisors
Spec == Init /\ [][Next]_vars

\* One session run alone by its own run() (DataStream.run or
\* TradingStream.run), with every subscribe and unsubscribe call
NextOne ==
    \/ \E s \in Sessions : run_one(s)
    \/ interrupt
    \/ run_raises
    \/ \E s \in Sessions : poll(s)
    \/ \E s \in Sessions : connect_ok(s)
    \/ \E s \in Sessions : ack_ok(s)
    \/ \E s \in Sessions : ack_bad(s)
    \/ \E s \in Sessions : auth_ok(s)
    \/ \E s \in Sessions : auth_bad(s)
    \/ \E s \in Sessions : sub_done(s)
    \/ \E s \in Sessions : transport_fail(s)
    \/ \E s \in Sessions : backoff_done(s)
    \/ \E s \in Sessions : close_done(s)
    \/ \E s \in Sessions : cancel(s)
    \/ \E k \in Kinds, h \in Handlers \cup {NotCoroutine}, q \in SymbolTuples :
          subscribe(k, h, q)
    \/ \E k \in Kinds, q \in SymbolTuples : unsubscribe(k, q)
    \/ \E h \in Handlers \cup {NotCoroutine} : subscribe_trade_updates(h)

SpecOne == Init /\ [][NextOne]_vars

\* the subscribe calls made while the feed is watched: an exact key, the
\* wildcard under another handler, and both keys at once
FeedSubscribes ==
    {<<"h1", <<"AAPL">>>>, <<"h2", <<"*">>>>, <<"h1", <<"AAPL", "*">>>>}

\* DataStream run alone with the frames of its feed: every step of its
\* supervisor, the dispatch of the frames it receives while Live, and the
\* subscribe and unsubscribe calls of the data feed
NextFeed ==
    \/ run_one("data")
    \/ interrupt
    \/ run_raises
    \/ \E s \in Sessions : poll(s)
    \/ \E s \in Sessions : connect_ok(s)
    \/ \E s \in Sessions : ack_ok(s)
    \/ \E s \in Sessions : ack_bad(s)
    \/ \E s \in Sessions : auth_ok(s)
    \/ \E s \in Sessions : auth_bad(s)
    \/ \E s \in Sessions : sub_done(s)
    \/ \E s \in Sessions : transport_fail(s)
    \/ \E s \in Sessions : backoff_done(s)
    \/ \E s \in Sessions : close_done(s)
    \/ \E s \in Sessions : cancel(s)
    \/ \E frame \in Frames : recv(frame)
    \/ handler_returns
    \/ handler_raises
    \/ \E k \in Kinds, c \in FeedSubscribes : subscribe(k, c[1], c[2])
    \/ \E k \in Kinds, x \in Symbols : unsubscribe(k, <<x>>)

SpecFeed == Init /\ [][NextFeed]_vars

(***************************************************************************)
(* The retry policy                                                        *)
(***************************************************************************)
\* the awaits of one connection attempt, up to Live
Attempting == {"connect", "ack", "auth", "sub"}

Aborting(o) == o.after = "ConnectionError" \/ o.outcome = "ConnectionError"

\* C1: with the retry maximum 3, a supervisor goes on to a new connection
\* attempt after each of the first three consecutive transport failures; the
\* fourth aborts it with the ConnectionError "max retries exceeded", and it
\* aborts for no smaller number of failures; after the fourth failure it is
\* only closing or has ended, so that no streak holds a fifth attempt (the
\* first attempt and at most three made after a failure).
RetryCeiling ==
    \A s \in Sessions :
        LET o == sess[s] IN
        /\ streak[s] <= 4
        /\ reconnects[s] <= 3
        /\ Aborting(o) => streak[s] = 4
        /\ streak[s] = 4 =>
              \/ o.pc = "closing" /\ o.after = "ConnectionError"
              \/ o.pc = "done" /\ o.outcome = "ConnectionError"
              \/ o.pc = "done" /\ cancelAt[s] = "closing"
        /\ (o.pc \in Attempting /\ streak[s] > 0) => reconnects[s] = streak[s]
        /\ (o.pc = "backoff" \/ (o.pc = "closing" /\ o.after = "loop")) =>
              (streak[s] \in 1..3 /\ reconnects[s] = streak[s] - 1)

\* a supervisor aborted by its fourth consecutive failure, after three retries
RetryCeilingReached ==
    \E s \in Sessions :
        /\ sess[s].pc = "done" /\ sess[s].outcome = "ConnectionError"
        /\ streak[s] = 4 /\ reconnects[s] = 3

\* C2: in a streak of consecutive transport failures the attempt after the
\* first failure is made with no backoff sleep, and before the attempt after
\* the second and each later failure the supervisor has slept the backoff
\* duration exactly once: an attempt after k failures follows k - 1 sleeps
\* of APCA_RETRY_WAIT, and the sleep after the k-th failure (k >= 2) starts
\* with k - 2 of them done.
BackoffOncePerLaterFailure ==
    \A s \in Sessions :
        LET o == sess[s] IN
        /\ (o.pc \in Attempting /\ streak[s] = 0) => slept[s] = 0
        /\ (o.pc \in Attempting /\ streak[s] = 1) => slept[s] = 0
        /\ (o.pc \in Attempting /\ streak[s] >= 2) =>
              slept[s] = APCA_RETRY_WAIT * (streak[s] - 1)
        /\ o.pc = "backoff" => (streak[s] >= 2 /\ slept[s] = APCA_RETRY_WAIT * (streak[s] - 2))

\* the attempt after the first failure, unslept, and the one after the third,
\* which follows two sleeps
BackoffWitness ==
    /\ sess["data"].pc = "connect" /\ streak["data"] = 3 /\ slept["data"] = 6
    /\ sess["trading"].pc = "connect" /\ streak["trading"] = 1
    /\ slept["trading"] = 0

\* C3: a malformed connect acknowledgment, an auth error frame or an
\* unexpected auth response is not retried: the step that meets it leaves the
\* retry counter as it is and takes the supervisor to its end (through
\* close(), when a socket is open) with that error as its result; from then
\* on the supervisor starts no connection attempt and counts no retry.
Fatal(o) == o.after = "ValueError" \/ o.outcome = "ValueError"

HandshakeAndAuthErrorsAreFatal ==
    [][\A s \in Sessions :
          /\ (ack_bad(s) \/ auth_bad(s)) =>
                /\ sess'[s].retries = sess[s].retries
                /\ Fatal(sess'[s])
          /\ Fatal(sess[s]) =>
                /\ sess[s].pc \in {"closing", "done"}
                /\ sess'[s].pc \in {"closing", "done"}
                /\ sess'[s].retries = sess[s].retries
                /\ reconnects'[s] = reconnects[s]
                /\ (sess[s].pc = "done" => sess'[s] = sess[s])]_vars

\* an auth failure on a reconnect: the supervisor ended with the error, the
\* one earlier transport failure still the only one counted
FatalWitness ==
    \E s \in Sessions :
        /\ sess[s].pc = "done" /\ sess[s].outcome = "ValueError"
        /\ sess[s].retries = 1 /\ streak[s] = 1 /\ sess[s].ws = None

(***************************************************************************)
(* Cancellation and interruption                                           *)
(***************************************************************************)
\* C5: a cancellation delivered while a supervisor is connecting,
\* authenticating, subscribing, consuming or sleeping in backoff ends its
\* loop: it goes through close() to its end, where the handle is cleared and
\* the result is a return (TradingStream) or the CancelledError (DataStream),
\* never the ConnectionError; it starts no further connection attempt.
CancelEndsClosed ==
    \A s \in Sessions :
        LET o == sess[s] IN
        cancelAt[s] \in TryAwaits \cup {"backoff"} =>
            /\ o.pc \in {"closing", "done"}
            /\ o.pc = "closing" => o.after \in {"returned", "CancelledError"}
            /\ o.pc = "done" =>
                  /\ o.ws = None
                  /\ o.outcome \in {"returned", "CancelledError"}

\* both supervisors cancelled and ended with the handle cleared: one while
\* consuming, one in its backoff sleep
CancelWitness ==
    /\ cancelAt["trading"] = "consume" /\ cancelAt["data"] = "backoff"
    /\ \A s \in Sessions : sess[s].pc = "done" /\ sess[s].ws = None

\* C6: when a caller's interrupt ends run() while both supervisors run, both
\* sessions have closed their sockets and cleared their handles by the time
\* run() has returned.
InterruptClosesBoth ==
    runResult = "interrupted" => \A s \in Sessions : sess[s].ws = None

(***************************************************************************)
(* Subscriptions                                                           *)
(***************************************************************************)
\* C4 as claimed: no connection attempt, the first or a later one, is
\* started while all registries of the session are empty.
NoAttemptWhileEmpty == \A s \in Sessions : lastAt[s] # "empty"

\* C4: the first connection attempt of a session is not started while all
\* its registries are empty.
FirstAttemptSubscribed == \A s \in Sessions : firstAt[s] # "empty"

\* a session that first connected with a subscription and, emptied since,
\* started a reconnect with none
ReconnectWhileEmpty ==
    \E s \in Sessions : firstAt[s] = "subscribed" /\ lastAt[s] = "empty"

\* the subscribe message of DataStream for the registries hs
FullSubscribe(hs) ==
    [action |-> "subscribe", trades |-> Keys(hs["trades"]),
     quotes |-> Keys(hs["quotes"]), bars |-> Keys(hs["bars"])]

Listen == [action |-> "listen", streams |-> <<"trade_updates">>]

ValidFor(q, d) == Range(q) \subseteq KeySet(d) /\ Cardinality(Range(q)) = Len(q)

\* C8: an unsubscribe call that names subscribed symbols, made while the
\* session is Live, sends one unsubscribe message naming exactly these symbols
\* under its topic kind, the other two lists empty, and removes them; made
\* while the session is not Live it sends nothing and removes them.
UnsubscribeLiveOrDeferred ==
    [][\A k \in Kinds, q \in SymbolTuples \ {<<>>} :
          (ValidFor(q, handlers[k]) /\ unsubscribe(k, q)) =>
              /\ KeySet(handlers'[k]) = KeySet(handlers[k]) \ Range(q)
              /\ \A j \in Kinds \ {k} : handlers'[j] = handlers[j]
              /\ sent' = IF Live("data")
                         THEN [sent EXCEPT !["data"] = Append(@,
                                 [action |-> "unsubscribe",
                                  trades |-> IF k = "trades" THEN q ELSE <<>>,
                                  quotes |-> IF k = "quotes" THEN q ELSE <<>>,
                                  bars |-> IF k = "bars" THEN q ELSE <<>>])]
                         ELSE sent]_vars

\* C9: an unsubscribe call that names a symbol that is not subscribed under
\* its topic kind ends with a KeyError and has no effect: no registry entry
\* is removed and no message is sent.
UnknownSymbolRejected ==
    [][\A k \in Kinds, q \in SymbolTuples :
          (~(Range(q) \subseteq KeySet(handlers[k])) /\ unsubscribe(k, q)) =>
              /\ lastCall'.result = "KeyError"
              /\ handlers' = handlers
              /\ sent' = sent]_vars

\* C10: when every call so far was accepted and returned, the resubscribe
\* step of a connect (after the authentication succeeded) sends one subscribe
\* message that lists under each topic kind exactly the keys of the net
\* effect of the calls, each once, and nothing when the net effect is empty;
\* the registry then holds under each key the handler of the last subscribe
\* that named it.  TradingStream sends its listen message when a handler is
\* set.
ResubscribeIsNetEffect ==
    [][/\ (auth_ok("data") /\ allValid) =>
            /\ \A k \in Kinds :
                  /\ KeySet(handlers[k]) = DOMAIN net[k]
                  /\ \A i \in 1..Len(handlers[k]) :
                        handlers[k][i][2] = net[k][handlers[k][i][1]]
            /\ IF \A k \in Kinds : DOMAIN net[k] = {}
               THEN sent' = sent
               ELSE LET n == Len(sent'["data"])
                        m == sent'["data"][n]
                    IN  /\ n = Len(sent["data"]) + 1
                        /\ SubSeq(sent'["data"], 1, n - 1) = sent["data"]
                        /\ m.action = "subscribe"
                        /\ \A k \in Kinds :
                              /\ Range(m[k]) = DOMAIN net[k]
                              /\ Len(m[k]) = Cardinality(DOMAIN net[k])
       /\ auth_ok("trading") =>
            sent' = [sent EXCEPT !["trading"] =
                        IF trade_updates_handler \in Handlers
                        THEN Append(@, Listen) ELSE @]]_vars

\* the resubscribe of a connect made after a subscribe of two symbols and an
\* unsubscribe of one of them: the message lists the one that is left
ResubscribedNetEffect ==
    /\ sess["data"].pc = "sub" /\ allValid /\ ncalls = 2
    /\ lastCall.op = "unsubscribe"
    /\ Len(sent["data"]) = 2
    /\ sent["data"][2].action = "subscribe"
    /\ sent["data"][2].trades = <<"*">>
    /\ DOMAIN net["trades"] = {"*"}

(***************************************************************************)
(* Dispatch                                                                *)
(***************************************************************************)
\* C11: for each topic kind, a message whose symbol has an exact-symbol
\* handler invokes that handler, once, also when a wildcard handler is
\* registered, which is then not invoked; a message whose symbol has no exact
\* registration invokes the wildcard handler when one is registered.  Each
\* message of a frame has at most one dispatch.
DispatchPrecedence ==
    /\ Len(feed.invoked) <= Len(feed.got)
    /\ \A i \in 1..Len(feed.invoked) :
          LET r == feed.invoked[i] IN
          /\ r.msg = feed.got[i]
          /\ r.exact # None => r.handler = r.exact
          /\ (r.exact = None /\ r.wild # None) => r.handler = r.wild
          /\ (r.exact = None /\ r.wild = None) => r.handler = None

\* a frame of two trades with an exact and a wildcard handler registered:
\* the trade of the exact symbol went to its handler, the other to the
\* wildcard handler
PrecedenceWitness ==
    /\ Len(feed.invoked) = 2
    /\ feed.invoked[1].msg = [T |-> "t", S |-> "AAPL"]
    /\ feed.invoked[1].exact = "h1" /\ feed.invoked[1].wild = "h2"
    /\ feed.invoked[1].handler = "h1"
    /\ feed.invoked[2].msg = [T |-> "t", S |-> "MSFT"]
    /\ feed.invoked[2].exact = None /\ feed.invoked[2].handler = "h2"

\* C12 as claimed: a subscribe call with a handler that is no coroutine
\* function ends with a TypeError.
NotCoroutineRaisesTypeError ==
    [][/\ \A k \in Kinds, q \in SymbolTuples :
            subscribe(k, NotCoroutine, q) => lastCall'.result = "TypeError"
       /\ subscribe_trade_updates(NotCoroutine) =>
            lastCall'.result = "TypeError"]_vars

\* C12: a subscribe call with a handler that is no coroutine function ends
\* with a ValueError and has no effect: no registry changes, no message is
\* sent, the supervisor is where it was; no registry ever holds such a
\* handler, so that no dispatch finds it.
NotCoroutineRejected ==
    [][/\ \A k \in Kinds, q \in SymbolTuples :
            subscribe(k, NotCoroutine, q) =>
                /\ lastCall'.result = "ValueError"
                /\ handlers' = handlers /\ sent' = sent /\ sess' = sess
       /\ subscribe_trade_updates(NotCoroutine) =>
            /\ lastCall'.result = "ValueError"
            /\ trade_updates_handler' = trade_updates_handler
            /\ sent' = sent /\ sess' = sess
       /\ \A k \in Kinds : \A i \in 1..Len(handlers'[k]) :
            handlers'[k][i][2] \in Handlers
       /\ trade_updates_handler' \in Handlers \cup {None}]_vars

\* a subscribe call rejected while the session was Live with a subscription,
\* where an accepted call sends a message
RejectedWhileLive ==
    /\ lastCall.op = "subscribe" /\ lastCall.result = "ValueError"
    /\ lastCall.live /\ lastCall.nmsgs = 0
    /\ Live("data") /\ handlers["trades"] # <<>>
    /\ Len(sent["data"]) = 2

\* C13 as claimed: a message for a symbol that a completed unsubscribe
\* removed, and that was not subscribed again, invokes no handler.
RemovedSymbolInvokesNone ==
    \A i \in 1..Len(feed.invoked) :
        feed.invoked[i].gone => feed.invoked[i].handler = None

\* C13: a message for a symbol that a completed unsubscribe removed, and that
\* was not subscribed again, finds no handler under that symbol: it is
\* dispatched to the wildcard handler of its kind when one is registered and
\* to no handler otherwise.
RemovedSymbolNotServed ==
    \A i \in 1..Len(feed.invoked) :
        LET r == feed.invoked[i] IN
        r.gone => (r.exact = None /\ r.handler = r.wild)

\* a trade of a symbol that was subscribed and then unsubscribed, received
\* with no wildcard registered: no handler is invoked
RemovedSymbolDropped ==
    /\ Len(feed.invoked) >= 1
    /\ feed.invoked[1].gone /\ feed.invoked[1].wild = None
    /\ feed.invoked[1].handler = None
    /\ lastCall.op = "unsubscribe" /\ lastCall.live /\ lastCall.nmsgs = 1

\* C14: the messages of a frame are dispatched in arrival order, one at a
\* time: the i-th dispatch is of the i-th message, at most one handler
\* invocation is unfinished, the supervisor is suspended in it, and it is
\* the latest dispatch; the next frame is received only when every message
\* of this one is dispatched and no invocation is unfinished.
DispatchInArrivalOrder ==
    /\ feed.active \in {0, 1}
    /\ Len(feed.invoked) <= Len(feed.got)
    /\ \A i \in 1..Len(feed.invoked) : feed.invoked[i].msg = feed.got[i]
    /\ feed.active = 1 =>
          /\ sess["data"].pc = "handler"
          /\ feed.invoked[Len(feed.invoked)].handler # None
    /\ sess["data"].pc = "handler" => feed.active = 1
    /\ sess["data"].pc = "consume" =>
          (feed.active = 0 /\ Len(feed.invoked) = Len(feed.got))

\* a frame of two messages that both have a handler: the first invocation
\* is over, the supervisor is suspended in the second
SecondAfterFirst ==
    /\ Len(feed.got) = 2 /\ Len(feed.invoked) = 2
    /\ feed.invoked[1].handler # None /\ feed.invoked[2].handler # None
    /\ feed.invoked[1].msg # feed.invoked[2].msg
    /\ feed.active = 1 /\ sess["data"].pc = "handler"

(***************************************************************************)
(* The connection of a session                                             *)
(***************************************************************************)
\* C15: the retry counter is zero whenever the session is Live, and it is
\* always the number of transport failures since the session was last Live
\* (or since it started).
RetriesZeroWhileLive ==
    \A s \in Sessions :
        /\ Live(s) => sess[s].retries = 0
        /\ sess[s].retries = streak[s]

\* a session Live again, its counter zero, by an attempt that followed three
\* consecutive failures
LiveAfterThreeFailures ==
    \E s \in Sessions :
        Live(s) /\ liveAfter[s] = 3 /\ sess[s].retries = 0

\* the messages by which a session subscribes
SubscribeActions == {"subscribe", "listen"}

\* C16: in every connection attempt the auth request is the first message
\* sent on the socket, sent once the connect step succeeded; a subscribe
\* message is sent only after the authentication succeeded; the session is
\* Live only after the three steps; an attempt starts with the handle empty
\* and a supervisor ended by a failure has its handle empty.
ConnectAuthResubscribe ==
    \A s \in Sessions :
        LET o == sess[s] IN
        /\ o.pc = "connect" => o.ws = None
        /\ o.pc = "ack" => sent[s] = <<>>
        /\ o.pc = "auth" => sent[s] = <<auth_msg(s)>>
        /\ o.pc = "sub" =>
              /\ Len(sent[s]) = 2 /\ sent[s][1] = auth_msg(s)
              /\ sent[s][2].action \in SubscribeActions
        /\ Live(s) =>
              /\ o.pc \in {"consume", "handler"}
              /\ Len(sent[s]) >= 1 /\ sent[s][1] = auth_msg(s)
              /\ \A i \in 2..Len(sent[s]) : sent[s][i] # auth_msg(s)
        /\ (o.pc = "done" /\ o.outcome \in {"ConnectionError", "ValueError", "HandlerError"})
              => o.ws = None

\* both sessions Live on the socket of a second attempt, the auth request
\* and the subscribe message sent on it in this order
ChainWitness ==
    /\ \A s \in Sessions : Live(s) /\ liveAfter[s] = 1
    /\ sent["data"] = <<auth_msg("data"), FullSubscribe(handlers)>>
    /\ sent["trading"] = <<auth_msg("trading"), Listen>>

\* C17: a session opens a socket only when its handle is empty, so that it
\* never holds a second socket beside one that is not closed.
OneSocketPerSession ==
    [][\A s \in Sessions :
          /\ connect_ok(s) => sess[s].ws = None
          /\ (sess'[s].ws = "open" /\ sess[s].ws # "open") => sess[s].ws = None]_vars

\* a socket opened by the third attempt of a streak, after the sockets of the
\* two before it failed and were closed
ReopenedAfterClose ==
    \E s \in Sessions :
        /\ sess[s].pc = "auth" /\ sess[s].ws = "open"
        /\ streak[s] = 2 /\ reconnects[s] = 2 /\ sess[s].retries = 2

\* C18: whenever the running flag of a session is set, its handle is an open
\* socket on which the session is authenticated and consuming.
RunningOnlyWhileOpen ==
    \A s \in Sessions :
        sess[s].running =>
            (sess[s].ws = "open" /\ sess[s].pc \in {"consume", "handler"})

\* C19: whenever the data session is Live, every key of its registries is
\* listed, under its kind, in a subscribe message sent on the current socket.
LiveKeysWereSent ==
    Live("data") =>
        \A k \in Kinds : \A x \in KeySet(handlers[k]) :
            \E i \in 1..Len(sent["data"]) :
                /\ sent["data"][i].action = "subscribe"
                /\ x \in Range(sent["data"][i][k])

\* C20: when run() has raised because a supervisor ended with a fatal error,
\* no session holds a socket: every handle is empty.
FatalEndClosesBoth ==
    (/\ runResult = "raised"
     /\ \E s \in Sessions :
           sess[s].pc = "done" /\ sess[s].outcome \in {"ConnectionError", "ValueError"})
        => \A s \in Sessions : sess[s].ws = None

====
